---- MODULE Spec2Model ----
(***************************************************************************)
(* Record Linkage Review (RLR): the review-session backend of              *)
(* src/backend/rlr.py (class rlr) together with the Streamlit callbacks    *)
(* of src/pages that mutate the same session object.                       *)
(*                                                                         *)
(* Tables (pandas data frames) are records [cols, rows]: cols is the set   *)
(* of column names, rows the sequence of rows, each row a function from    *)
(* cols to cell values.  Cell values of data tables are integers; the      *)
(* reserved review columns of the comparison table are record fields.      *)
(***************************************************************************)
EXTENDS Integers, Sequences, FiniteSets, TLC

\* ------------------------------------------------------------------------
\* Bounds of the model
\* ------------------------------------------------------------------------
\* largest number of rows of a comparison table offered as input
MaxCompRows == 2
\* number of label/note writes after which the clock stops the model
MaxClock == 1

\* ------------------------------------------------------------------------
\* Program constants (class attributes of rlr)
\* ------------------------------------------------------------------------
\* COMP_EXIST_THRESH = 0.8, kept as the fraction ThreshNum / ThreshDen
ThreshNum == 8
ThreshDen == 10
DEFAULT_LABELS == <<"Match", "Not a Match">>
DEFAULT_AUTOSAVE == FALSE

\* Python's None for object attributes, and pandas' NaN for a missing cell
\* of a text column (what read_csv yields for an empty field)
None == "<None>"
NaN == "<NaN>"
\* attribute never assigned (reading it raises AttributeError)
Unset == "<unset>"

\* ------------------------------------------------------------------------
\* Generic helpers
\* ------------------------------------------------------------------------
Range(s) == {s[i] : i \in DOMAIN s}

\* sequences over S of length 0..n
SeqUpTo(S, n) == UNION {[1..k -> S] : k \in 0..n}


\* ------------------------------------------------------------------------
\* The data tables the reviewer can load (files on disk or data frames)
\* ------------------------------------------------------------------------
Row2(c1, v1, c2, v2) == (c1 :> v1) @@ (c2 :> v2)

\* columns a, b: a alone, b alone and (a, b) identify a row
TableAB == [cols |-> {"a", "b"},
            rows |-> <<Row2("a", 1, "b", 1), Row2("a", 2, "b", 2)>>]
\* columns a, b: only (a, b) identifies a row
TableAB2 == [cols |-> {"a", "b"},
             rows |-> <<Row2("a", 1, "b", 1), Row2("a", 1, "b", 2),
                        Row2("a", 2, "b", 2)>>]
\* columns c, d: c and (c, d) identify a row, d does not
TableCD == [cols |-> {"c", "d"},
            rows |-> <<Row2("c", 1, "d", 1), Row2("c", 2, "d", 1)>>]


\* files on disk: path -> table; any other path does not exist
DataFiles == ("ab.csv" :> TableAB) @@ ("cd.dta" :> TableCD)
\* paths offered as input: the existing files, a missing file and a file of
\* an unsupported type
DataPaths == {"ab.csv", "cd.dta", "gone.csv", "ab.txt"}
\* the comparison file of the session and a path that holds no file
CompPaths == {"comps.csv", "gone.csv", "ab.txt"}

\* os.path.splitext(path)[1] of the paths of the model
Ext(path) ==
    CASE path \in {"ab.csv", "gone.csv", "comps.csv", "saved.csv"} -> ".csv"
      [] path \in {"cd.dta"} -> ".dta"
      [] OTHER -> ".txt"

\* a source is a path (str) or a data frame
PathSrc(p) == [kind |-> "path", path |-> p, table |-> [cols |-> {}, rows |-> <<>>]]
FrameSrc(t) == [kind |-> "frame", path |-> "", table |-> t]
DataSources == {PathSrc(p) : p \in DataPaths} \cup {FrameSrc(t) : t \in {TableAB2, TableCD}}

\* id_vars as passed: a str or a list of str
StrIds(s) == [kind |-> "str", s |-> s, l |-> <<>>]
ListIds(l) == [kind |-> "list", s |-> "", l |-> l]
IdInputs == {StrIds("a"), ListIds(<<>>), ListIds(<<"b">>),
             ListIds(<<"a", "b">>), ListIds(<<"c">>), ListIds(<<"c", "d">>)}
SideInputs == {"l", "R", "x"}

\* str.lower() on the side strings of the model
Lower(s) == CASE s = "L" -> "l" [] s = "R" -> "r" [] OTHER -> s

\* rlr.py:75  if isinstance(id_vars, str): id_vars = [id_vars]
IdList(ids) == IF ids.kind = "str" THEN <<ids.s>> ELSE ids.l

\* the tuple of the values of row at the columns idv, in list order
IdTuple(row, idv) == [i \in DOMAIN idv |-> row[idv[i]]]

\* pd.Series(idv).isin(cols).all()
AllIn(idv, cols) == \A i \in DOMAIN idv : idv[i] \in cols

\* data_df.set_index(idv).index.is_unique (idv non-empty, columns present)
IndexIsUnique(table, idv) ==
    \A i, j \in DOMAIN table.rows :
        IdTuple(table.rows[i], idv) = IdTuple(table.rows[j], idv) => i = j

\* ------------------------------------------------------------------------
\* State of one rlr object and of the comparison file on disk
\* ------------------------------------------------------------------------
VARIABLES
    dataL_loaded, dataR_loaded, comps_loaded, var_schema_loaded,
    ready_to_review,
    label_choices,          \* list of str
    autosave,
    id_vars_l, id_vars_r,   \* list of str; <<>> before the first load
    dataL, dataR,           \* data frame: [st, cols, rows]
    dataL_file_path, dataR_file_path, comp_pairs_file_path,
    comp_df,                \* comparison frame: [st, cols, rev, rows]
    curr_comp_pair_index,   \* assigned together with comp_df; 0 before
    var_schema,             \* list of groups; <<>> before the first set
    disk,                   \* the comparison frame stored in comps.csv
    clock                   \* datetime.datetime.now(), as a counter

vars == <<dataL_loaded, dataR_loaded, comps_loaded, var_schema_loaded,
          ready_to_review, label_choices, autosave, id_vars_l, id_vars_r,
          dataL, dataR, dataL_file_path, dataR_file_path,
          comp_pairs_file_path, comp_df, curr_comp_pair_index, var_schema,
          disk, clock>>

\* the session object (with the file and the clock it works on) as one value,
\* so that a method is an operator from a session to a session
Self == [dataL_loaded |-> dataL_loaded, dataR_loaded |-> dataR_loaded,
         comps_loaded |-> comps_loaded,
         var_schema_loaded |-> var_schema_loaded,
         ready_to_review |-> ready_to_review,
         label_choices |-> label_choices, autosave |-> autosave,
         id_vars_l |-> id_vars_l, id_vars_r |-> id_vars_r,
         dataL |-> dataL, dataR |-> dataR,
         dataL_file_path |-> dataL_file_path,
         dataR_file_path |-> dataR_file_path,
         comp_pairs_file_path |-> comp_pairs_file_path,
         comp_df |-> comp_df, curr_comp_pair_index |-> curr_comp_pair_index,
         var_schema |-> var_schema, disk |-> disk, clock |-> clock]

\* the session after the step is s
Becomes(s) ==
    /\ dataL_loaded' = s.dataL_loaded
    /\ dataR_loaded' = s.dataR_loaded
    /\ comps_loaded' = s.comps_loaded
    /\ var_schema_loaded' = s.var_schema_loaded
    /\ ready_to_review' = s.ready_to_review
    /\ label_choices' = s.label_choices
    /\ autosave' = s.autosave
    /\ id_vars_l' = s.id_vars_l
    /\ id_vars_r' = s.id_vars_r
    /\ dataL' = s.dataL
    /\ dataR' = s.dataR
    /\ dataL_file_path' = s.dataL_file_path
    /\ dataR_file_path' = s.dataR_file_path
    /\ comp_pairs_file_path' = s.comp_pairs_file_path
    /\ comp_df' = s.comp_df
    /\ curr_comp_pair_index' = s.curr_comp_pair_index
    /\ var_schema' = s.var_schema
    /\ disk' = s.disk
    /\ clock' = s.clock

\* outcome of a method: the session it leaves, the exception it raised (""
\* when it returned), the warnings it issued and the value it returned
NoVal == [kind |-> "none"]
Ok(s) == [self |-> s, err |-> "", warn |-> {}, val |-> NoVal]
OkVal(s, v) == [self |-> s, err |-> "", warn |-> {}, val |-> v]
OkWarn(s, w) == [self |-> s, err |-> "", warn |-> w, val |-> NoVal]
Raise(s, exc) == [self |-> s, err |-> exc, warn |-> {}, val |-> NoVal]

\* a data frame attribute: never assigned, None, or a frame
UnsetFrame == [st |-> "unset", cols |-> {}, rows |-> <<>>]
NoneFrame == [st |-> "none", cols |-> {}, rows |-> <<>>]
Frame(t) == [st |-> "df", cols |-> t.cols, rows |-> t.rows]

\* ------------------------------------------------------------------------
\* rlr.check_ready_to_review
\* ------------------------------------------------------------------------
check_ready_to_review(s) ==
    LET data_loaded == s.dataL_loaded /\ s.dataR_loaded /\ s.comps_loaded
    IN  [s EXCEPT !.ready_to_review =
            data_loaded /\ s.var_schema_loaded /\ Len(s.label_choices) > 0]

\* ------------------------------------------------------------------------
\* rlr.load_dataset
\* ------------------------------------------------------------------------
\* lines 60-72: read the file of a path, or take the frame that was passed
ReadData(src) ==
    IF src.kind = "path"
    THEN IF Ext(src.path) \notin {".csv", ".dta"}
         THEN [err |-> "NotImplementedError", table |-> src.table]
         ELSE IF src.path \notin DOMAIN DataFiles
              THEN [err |-> "FileNotFoundError", table |-> src.table]
              ELSE [err |-> "", table |-> DataFiles[src.path]]
    ELSE [err |-> "", table |-> src.table]

\* a load that never compares the id columns with the other side's
IdOverlap_Skipped(s, idv, side) == {}

\* lines 80-85: the id columns shared with the other side, if it is loaded
IdOverlap(s, idv, side) ==
    IF side = "r" /\ s.dataL_loaded
    THEN Range(s.id_vars_l) \cap Range(idv)
    ELSE IF side = "l" /\ s.dataR_loaded
         THEN Range(s.id_vars_r) \cap Range(idv)
         ELSE {}

\* a store that forgets to invalidate the comparison table
StoreDataset_KeepComps(s, side, idv, table, path) ==
    IF side = "l"
    THEN [s EXCEPT !.id_vars_l = idv,
                   !.dataL = Frame(table),
                   !.dataL_loaded = TRUE,
                   !.dataL_file_path = path,
                   !.var_schema_loaded = FALSE]
    ELSE [s EXCEPT !.id_vars_r = idv,
                   !.dataR = Frame(table),
                   !.dataR_loaded = TRUE,
                   !.dataR_file_path = path,
                   !.var_schema_loaded = FALSE]

\* lines 93-98, 103-111: the assignments of a load that passed its checks
StoreDataset(s, side, idv, table, path) ==
    IF side = "l"
    THEN [s EXCEPT !.id_vars_l = idv,
                   !.dataL = Frame(table),
                   !.dataL_loaded = TRUE,
                   !.dataL_file_path = path,
                   !.var_schema_loaded = FALSE,
                   !.comps_loaded = FALSE]
    ELSE [s EXCEPT !.id_vars_r = idv,
                   !.dataR = Frame(table),
                   !.dataR_loaded = TRUE,
                   !.dataR_file_path = path,
                   !.var_schema_loaded = FALSE,
                   !.comps_loaded = FALSE]

load_dataset(s, data_path, id_vars, side_arg) ==
    LET rd == ReadData(data_path)
        idv == IdList(id_vars)
        side == Lower(side_arg)
        path == IF data_path.kind = "path" THEN data_path.path ELSE None
    IN  IF rd.err # "" THEN Raise(s, rd.err)
        ELSE IF side \notin {"r", "l"} THEN Raise(s, "AssertionError")
        ELSE IF IdOverlap(s, idv, side) # {} THEN Raise(s, "AssertionError")
        ELSE IF ~AllIn(idv, rd.table.cols) THEN Raise(s, "AssertionError")
        \* set_index([]) raises ValueError
        ELSE IF idv = <<>> THEN Raise(s, "ValueError")
        ELSE IF ~IndexIsUnique(rd.table, idv) THEN Raise(s, "AssertionError")
        ELSE Ok(StoreDataset(s, side, idv, rd.table, path))

\* ------------------------------------------------------------------------
\* Comparison tables
\* ------------------------------------------------------------------------
\* rlr_modified holds "" until the first write, NaN after a reload of a
\* saved file, and a time of the clock (1, 2, ...) after a write
NoTime == 0
NaT == -1

Pair(a, b, c, d) == ("a" :> a) @@ ("b" :> b) @@ ("c" :> c) @@ ("d" :> d)
\* resolves in every data table under every choice of id columns
PairOk == Pair(1, 1, 1, 1)
\* a = 1 and b = 2 are both in TableAB, the tuple (1, 2) is not
PairHalf == Pair(1, 2, 2, 1)
\* a = 3 is in no data table, b = 1 is
PairMiss == Pair(3, 1, 1, 1)
PairRecs == {PairOk, PairHalf, PairMiss}

\* a row of a table that has no review columns yet (the review fields are
\* placeholders until load_comp_pairs adds the columns)
RawRow(ids) == [ids |-> ids, rlr_label |-> "", rlr_label_ind |-> 0,
                rlr_modified |-> NoTime, rlr_note |-> ""]
RawComp(cols, idrows) ==
    [st |-> "df", cols |-> cols, rev |-> FALSE,
     rows |-> [i \in DOMAIN idrows |-> RawRow(idrows[i])]]
UnsetComp == [st |-> "unset", cols |-> {}, rev |-> FALSE, rows |-> <<>>]
NoneComp == [st |-> "none", cols |-> {}, rev |-> FALSE, rows |-> <<>>]

\* the data frames offered to load_comp_pairs: every table of up to
\* MaxCompRows pairs, and a table that lacks the columns b and d
CompFrames ==
    {RawComp({"a", "b", "c", "d"}, r) : r \in SeqUpTo(PairRecs, MaxCompRows)}
    \cup {RawComp({"a", "c"}, <<("a" :> 1) @@ ("c" :> 1)>>)}
\* the comparison file comps.csv as it is before the first save
CompFile0 == RawComp({"a", "b", "c", "d"}, <<PairOk, PairMiss>>)
CompSources == {PathSrc(p) : p \in CompPaths}
               \cup {FrameSrc(t) : t \in CompFrames}

\* pd.read_csv of what to_csv wrote: an empty text field is read as NaN
ReadCsvRow(row) ==
    [row EXCEPT !.rlr_label = IF @ = "" THEN NaN ELSE @,
                !.rlr_note = IF @ = "" THEN NaN ELSE @,
                !.rlr_modified = IF @ = NoTime THEN NaT ELSE @]
ReadCsv(t) ==
    IF t.rev THEN [t EXCEPT !.rows = [i \in DOMAIN t.rows |-> ReadCsvRow(t.rows[i])]]
    ELSE t

\* lines 125-138 of load_comp_pairs
ReadComp(s, src) ==
    IF src.kind = "path"
    THEN IF Ext(src.path) \notin {".csv", ".dta"}
         THEN [err |-> "NotImplementedError", table |-> UnsetComp]
         ELSE IF src.path # "comps.csv"
              THEN [err |-> "FileNotFoundError", table |-> UnsetComp]
              ELSE [err |-> "", table |-> ReadCsv(s.disk)]
    ELSE [err |-> "", table |-> src.table]

\* value in index, for the index that set_index(idv) built: for one id
\* column the values of that column, for several columns (a MultiIndex) a
\* scalar is looked up in the first level
InIndex(v, frame, idv) ==
    \E i \in DOMAIN frame.rows : frame.rows[i][idv[1]] = v

\* the id tuple tup is a key of the index of frame
TupleInIndex(tup, frame, idv) ==
    \E i \in DOMAIN frame.rows : IdTuple(frame.rows[i], idv) = tup

\* lines 155-158: add the review columns that are not there
AddReviewColumns(t) ==
    IF t.rev THEN t
    ELSE [t EXCEPT !.rev = TRUE,
                   !.rows = [i \in DOMAIN t.rows |->
                        [t.rows[i] EXCEPT !.rlr_label_ind = 0,
                                          !.rlr_label = "",
                                          !.rlr_modified = NoTime,
                                          !.rlr_note = ""]]]

\* lines 163-169: the rows whose first left id or first right id is not in
\* the index of the data set
RowIsMissing(s, row) ==
    \/ ~InIndex(row.ids[s.id_vars_l[1]], s.dataL, s.id_vars_l)
    \/ ~InIndex(row.ids[s.id_vars_r[1]], s.dataR, s.id_vars_r)

\* a load that drops the rows it does not find instead of flagging them
FlagMissing_DropRows(s, t) ==
    [t EXCEPT !.rows = SelectSeq(t.rows, LAMBDA row : ~RowIsMissing(s, row))]

FlagMissing(s, t) ==
    [t EXCEPT !.rows = [i \in DOMAIN t.rows |->
        IF RowIsMissing(s, t.rows[i])
        THEN [t.rows[i] EXCEPT !.rlr_label_ind = -1]
        ELSE t.rows[i]]]

NumMissing(s, t) == Cardinality({i \in DOMAIN t.rows : RowIsMissing(s, t.rows[i])})

\* comp_df.set_index(all_ids).index.is_unique
CompIdsUnique(s, t) ==
    LET all_ids == s.id_vars_l \o s.id_vars_r
    IN  \A i, j \in DOMAIN t.rows :
            IdTuple(t.rows[i].ids, all_ids) = IdTuple(t.rows[j].ids, all_ids)
                => i = j

\* ------------------------------------------------------------------------
\* rlr.load_comp_pairs
\* ------------------------------------------------------------------------
load_comp_pairs(s, comp_pairs_path) ==
    IF ~s.dataL_loaded \/ ~s.dataR_loaded THEN Raise(s, "AssertionError")
    ELSE
    LET rd == ReadComp(s, comp_pairs_path)
        t0 == rd.table
        N == Len(t0.rows)
        path == IF comp_pairs_path.kind = "path" THEN comp_pairs_path.path
                ELSE None
    IN  IF rd.err # "" THEN Raise(s, rd.err)
        ELSE IF ~AllIn(s.id_vars_l, t0.cols) THEN Raise(s, "AssertionError")
        ELSE IF ~AllIn(s.id_vars_r, t0.cols) THEN Raise(s, "AssertionError")
        ELSE
        LET comp == FlagMissing(s, AddReviewColumns(t0))
            num_missing == NumMissing(s, t0)
            warn == (IF CompIdsUnique(s, t0) THEN {} ELSE {"ids not unique"})
                    \cup (IF N > 0 /\ (N - num_missing) * ThreshDen < ThreshNum * N
                          THEN {"ids not found"} ELSE {})
        IN  \* perc_found divides by the number of rows
            IF N = 0 THEN Raise(s, "ZeroDivisionError")
            ELSE OkWarn(check_ready_to_review(
                            [s EXCEPT !.comp_df = comp,
                                      !.comps_loaded = TRUE,
                                      !.curr_comp_pair_index = 0,
                                      !.comp_pairs_file_path = path]),
                        warn)

\* ------------------------------------------------------------------------
\* rlr.set_var_comp_schema
\* ------------------------------------------------------------------------
\* a variable group is a dict; has is the set of its keys
Group(name, lvars, rvars) ==
    [has |-> {"name", "lvars", "rvars"}, name |-> name, lvars |-> lvars,
     rvars |-> rvars]
GroupA == Group("g1", <<"a">>, <<"c">>)
GroupB == Group("g2", <<"b", "a">>, <<"d">>)
GroupBadVar == Group("g3", <<"a">>, <<"z">>)
GroupNoKey == [GroupA EXCEPT !.has = {"name", "lvars"}]
SchemaInputs == {<<>>, <<GroupA>>, <<GroupB, GroupA>>, <<GroupA, GroupBadVar>>,
                 <<GroupNoKey>>}

\* a validation that looks at the keys of a group only
GroupIsValid_KeysOnly(s, g) == {"name", "lvars", "rvars"} \subseteq g.has

\* lines 232-241: every group has its keys and names columns of the data
GroupIsValid(s, g) ==
    /\ {"name", "lvars", "rvars"} \subseteq g.has
    /\ AllIn(g.lvars, s.dataL.cols)
    /\ AllIn(g.rvars, s.dataR.cols)

set_var_comp_schema(s, schema) ==
    IF ~s.dataL_loaded \/ ~s.dataR_loaded THEN Raise(s, "AssertionError")
    ELSE IF \E i \in DOMAIN schema : ~GroupIsValid(s, schema[i])
         THEN Raise(s, "AssertionError")
         ELSE Ok(check_ready_to_review(
                    [s EXCEPT !.var_schema = schema,
                              !.var_schema_loaded = TRUE]))

\* ------------------------------------------------------------------------
\* rlr.set_label_choices
\* ------------------------------------------------------------------------
\* a Python value passed as a label: a str or an int, val is what str() gives
PyStr(x) == [ty |-> "str", val |-> x]
PyInt(x) == [ty |-> "int", val |-> x]
\* the object passed as label_choices: a list of values, or not a list
PyList(items) == [islist |-> TRUE, items |-> items]
NotAList == [islist |-> FALSE, items |-> <<>>]
StrList(strs) == PyList([i \in DOMAIN strs |-> PyStr(strs[i])])
\* str(opt)
Str(opt) == opt.val


set_label_choices(s, choices) ==
    IF ~choices.islist THEN Raise(s, "AssertionError")
    ELSE IF ~(Len(choices.items) > 0) THEN Raise(s, "AssertionError")
    ELSE Ok([s EXCEPT !.label_choices =
                [i \in DOMAIN choices.items |-> Str(choices.items[i])]])

\* ------------------------------------------------------------------------
\* rlr.set_autosave
\* ------------------------------------------------------------------------
set_autosave(s, autosave_bool) ==
    \* the attribute comp_pairs_file_path exists only after load_comp_pairs
    IF autosave_bool /\ s.comp_pairs_file_path = Unset
    THEN Raise(s, "AttributeError")
    ELSE IF autosave_bool /\ s.comp_pairs_file_path = None
         THEN OkWarn(s, {"no file path"})
         ELSE Ok([s EXCEPT !.autosave = autosave_bool])

\* ------------------------------------------------------------------------
\* rlr.load_review_packet
\* ------------------------------------------------------------------------
\* a list of necessary keys without the label choices
nec_keys_NoChoices == {"file_L", "file_L_ids", "file_R", "file_R_ids",
                       "file_comps", "var_group_schema"}
nec_keys == {"file_L", "file_L_ids", "file_R", "file_R_ids", "file_comps",
             "var_group_schema", "label_choices"}
\* sentinel of the packets of the model for "no such key"
NoIndex == -99

\* a review packet (dict): keys is the set of its keys
Packet(fileR, schema, missing, index) ==
    [keys |-> (nec_keys \ missing)
              \cup (IF index = NoIndex THEN {} ELSE {"curr_comp_pair_index"}),
     file_L |-> "ab.csv", file_L_ids |-> ListIds(<<"a", "b">>),
     file_R |-> fileR, file_R_ids |-> StrIds("c"),
     file_comps |-> "comps.csv", var_group_schema |-> schema,
     label_choices |-> StrList(<<"Match", "Maybe">>),
     curr_comp_pair_index |-> index]

PacketInputs ==
    {Packet("cd.dta", <<GroupA>>, {}, i) : i \in {NoIndex, -1, 1, Len(CompFile0.rows)}}
    \cup {Packet("cd.dta", <<GroupA>>, {k}, 1) : k \in nec_keys}
    \cup {Packet("gone.csv", <<GroupA>>, {}, 1),
          Packet("cd.dta", <<GroupBadVar>>, {}, 1)}

\* a restore that takes the saved cursor without looking at the table
RestoreIndex_Unchecked(s, rev_packet) ==
    Ok(check_ready_to_review(
        IF "curr_comp_pair_index" \in rev_packet.keys
        THEN [s EXCEPT !.curr_comp_pair_index = rev_packet.curr_comp_pair_index]
        ELSE s))

\* lines 209-214
RestoreIndex(s, rev_packet) ==
    LET rev_ind == rev_packet.curr_comp_pair_index
        s1 == IF "curr_comp_pair_index" \in rev_packet.keys
                 /\ 0 <= rev_ind /\ rev_ind <= Len(s.comp_df.rows) - 1
              THEN [s EXCEPT !.curr_comp_pair_index = rev_ind]
              ELSE s
    IN  Ok(check_ready_to_review(s1))

\* every call runs on what the call before it left, unless that call raised
load_review_packet(s, rev_packet) ==
    IF ~(nec_keys \subseteq rev_packet.keys) THEN Raise(s, "AssertionError")
    ELSE
    LET r1 == load_dataset(s, PathSrc(rev_packet.file_L),
                           rev_packet.file_L_ids, "l")
        r2 == IF r1.err # "" THEN r1
              ELSE load_dataset(r1.self, PathSrc(rev_packet.file_R),
                                rev_packet.file_R_ids, "r")
        r3 == IF r2.err # "" THEN r2
              ELSE load_comp_pairs(r2.self, PathSrc(rev_packet.file_comps))
        r4 == IF r3.err # "" THEN r3
              ELSE set_var_comp_schema(r3.self, rev_packet.var_group_schema)
        r5 == IF r4.err # "" THEN r4
              ELSE set_label_choices(r4.self, rev_packet.label_choices)
    IN  IF r5.err # "" THEN r5 ELSE RestoreIndex(r5.self, rev_packet)

\* ------------------------------------------------------------------------
\* rlr.get_comp_pair
\* ------------------------------------------------------------------------
\* frame.loc[tup].to_dict(): the row of the frame whose id tuple is tup
Record(frame, idv, tup) ==
    LET i == CHOOSE i \in DOMAIN frame.rows : IdTuple(frame.rows[i], idv) = tup
    IN  frame.rows[i]

\* lines 308-315: the values of the records at the variables of each group
GroupedData(schema, l_rec, r_rec) ==
    [g \in DOMAIN schema |->
        [name |-> schema[g].name,
         lvals |-> [k \in DOMAIN schema[g].lvars |-> l_rec[schema[g].lvars[k]]],
         rvals |-> [k \in DOMAIN schema[g].rvars |-> r_rec[schema[g].rvars[k]]]]]

PyNone == [kind |-> "None"]
FormatInputs == {"raw", "grouped", "table"}

\* comp_ind is an index of comp_df (the default, curr_comp_pair_index, is
\* filled in by the caller)
get_comp_pair(s, raw_or_grouped, comp_ind) ==
    IF ~s.dataL_loaded \/ ~s.dataR_loaded \/ ~s.comps_loaded
    THEN Raise(s, "AssertionError")
    ELSE IF ~(0 <= comp_ind /\ comp_ind <= Len(s.comp_df.rows) - 1)
    THEN Raise(s, "AssertionError")
    ELSE
    LET row == s.comp_df.rows[comp_ind + 1]
        l_id == IdTuple(row.ids, s.id_vars_l)
        r_id == IdTuple(row.ids, s.id_vars_r)
    IN  IF row.rlr_label_ind = -1
        THEN [self |-> s, err |-> "", warn |-> {"ids not found"}, val |-> PyNone]
        ELSE IF ~TupleInIndex(l_id, s.dataL, s.id_vars_l)
                \/ ~TupleInIndex(r_id, s.dataR, s.id_vars_r)
        THEN Raise(s, "KeyError")
        ELSE
        LET l_rec_data == Record(s.dataL, s.id_vars_l, l_id)
            r_rec_data == Record(s.dataR, s.id_vars_r, r_id)
        IN  IF raw_or_grouped = "raw"
            THEN OkVal(s, [kind |-> "raw", l_rec |-> l_rec_data,
                           r_rec |-> r_rec_data])
            ELSE IF raw_or_grouped = "grouped"
            THEN IF ~s.var_schema_loaded THEN Raise(s, "AssertionError")
                 ELSE OkVal(s, [kind |-> "grouped",
                                groups |-> GroupedData(s.var_schema,
                                                l_rec_data, r_rec_data)])
            ELSE Raise(s, "NotImplementedError")

\* ------------------------------------------------------------------------
\* rlr.get_label_counts
\* ------------------------------------------------------------------------
\* sum(column == label): NaN equals nothing
CountLabel(t, label) ==
    Cardinality({i \in DOMAIN t.rows : t.rows[i].rlr_label = label
                                       /\ t.rows[i].rlr_label # NaN})
\* column.count(): the cells that are not NaN
CountNotNull(t) == Cardinality({i \in DOMAIN t.rows : t.rows[i].rlr_label # NaN})

\* the dictionary label_counts as a function from its keys to the counts
LabelCounts(t, choices) ==
    LET no_label_num == (Len(t.rows) - CountNotNull(t)) + CountLabel(t, "")
        \* lines 330-332: later assignments to a key replace earlier ones
        by_choice == [k \in {"Unlabeled"} \cup Range(choices) |->
                        IF k \in Range(choices) THEN CountLabel(t, k)
                        ELSE no_label_num]
        \* lines 335-337: value_counts() drops NaN
        labels_found == ({t.rows[i].rlr_label : i \in DOMAIN t.rows} \ {NaN})
                        \ (Range(choices) \cup {""})
    IN  \* line 338: update() replaces the keys it brings
        [k \in DOMAIN by_choice \cup labels_found |->
            IF k \in labels_found THEN CountLabel(t, k) ELSE by_choice[k]]

RECURSIVE SumOver(_, _)
SumOver(f, keys) ==
    IF keys = {} THEN 0
    ELSE LET k == CHOOSE k \in keys : TRUE
         IN  f[k] + SumOver(f, keys \ {k})
\* sum(label_counts.values())
SumValues(f) == SumOver(f, DOMAIN f)

get_label_counts(s) ==
    IF ~s.comps_loaded THEN Raise(s, "AssertionError")
    ELSE LET counts == LabelCounts(s.comp_df, s.label_choices)
         IN  [self |-> s, err |-> "",
              warn |-> IF SumValues(counts) # Len(s.comp_df.rows)
                       THEN {"counts don't match"} ELSE {},
              val |-> [kind |-> "counts", counts |-> counts]]

\* ------------------------------------------------------------------------
\* rlr.save_comp_df and rlr.save_label_or_note
\* ------------------------------------------------------------------------
\* comp_pairs_path is None in every call of the model: the file written is
\* the one of comp_pairs_file_path
save_comp_df(s) ==
    IF s.comp_pairs_file_path \in {None, Unset} THEN Raise(s, "TypeError")
    ELSE IF Ext(s.comp_pairs_file_path) \notin {".csv", ".dta"}
         THEN Raise(s, "NotImplementedError")
         ELSE Ok([s EXCEPT !.disk = s.comp_df])

KindInputs == {"label", "note", "other"}

\* a write that saves the file before it stamps the row
StampAndSave_SaveFirst(s, comp_ind) ==
    LET now == s.clock + 1
        r == IF s.autosave THEN save_comp_df(s) ELSE Ok(s)
    IN  [r EXCEPT !.self.clock = now,
                  !.self.comp_df.rows[comp_ind + 1].rlr_modified = now]

\* a write that stamps every row of the table
StampAndSave_AllRows(s, comp_ind) ==
    LET now == s.clock + 1
        s1 == [s EXCEPT !.clock = now,
                        !.comp_df.rows = [j \in DOMAIN @ |->
                            [@[j] EXCEPT !.rlr_modified = now]]]
    IN  IF s1.autosave THEN save_comp_df(s1) ELSE Ok(s1)

\* line 715 and lines 718-719; datetime.now() is later at every call
StampAndSave(s, comp_ind) ==
    LET now == s.clock + 1
        s1 == [s EXCEPT !.clock = now,
                        !.comp_df.rows[comp_ind + 1].rlr_modified = now]
    IN  IF s1.autosave THEN save_comp_df(s1) ELSE Ok(s1)

\* a validation that accepts every text
LabelIsValid_Any(s, text) == TRUE

\* line 704: text in [""] + self.label_choices
LabelIsValid(s, text) == text \in {""} \cup Range(s.label_choices)

\* an indicator that is set whatever the text
LabelInd_AlwaysOne(text) == 1

\* an indicator with its two values exchanged
LabelInd_Swapped(text) == IF text # "" THEN 0 ELSE 1

\* line 707: 1 if (text != "") else 0
LabelInd(text) == IF text # "" THEN 1 ELSE 0

save_label_or_note(s, text, label_or_note, comp_ind) ==
    IF ~s.ready_to_review THEN OkWarn(s, {"not ready"})
    ELSE IF ~(0 <= comp_ind /\ comp_ind <= Len(s.comp_df.rows) - 1)
    THEN Raise(s, "AssertionError")
    ELSE IF label_or_note = "label"
    THEN IF ~LabelIsValid(s, text)
         THEN Raise(s, "AssertionError")
         ELSE StampAndSave(
                [s EXCEPT !.comp_df.rows[comp_ind + 1].rlr_label = text,
                          !.comp_df.rows[comp_ind + 1].rlr_label_ind =
                                LabelInd(text)],
                comp_ind)
    ELSE IF label_or_note = "note"
    THEN StampAndSave([s EXCEPT !.comp_df.rows[comp_ind + 1].rlr_note = text],
                      comp_ind)
    ELSE Raise(s, "NotImplementedError")

\* ------------------------------------------------------------------------
\* rlr.get_review_packet
\* ------------------------------------------------------------------------
get_review_packet(s) ==
    IF ~s.ready_to_review
    THEN [self |-> s, err |-> "", warn |-> {"not ready"}, val |-> PyNone]
    ELSE IF s.dataL_file_path = None \/ s.dataR_file_path = None
            \/ s.comp_pairs_file_path = None
    THEN [self |-> s, err |-> "", warn |-> {"no file path"}, val |-> PyNone]
    ELSE OkVal(s, [kind |-> "packet",
                   file_L |-> s.dataL_file_path,
                   file_L_ids |-> s.id_vars_l,
                   file_R |-> s.dataR_file_path,
                   file_R_ids |-> s.id_vars_r,
                   file_comps |-> s.comp_pairs_file_path,
                   var_group_schema |-> s.var_schema,
                   label_choices |-> s.label_choices,
                   curr_comp_pair_index |-> s.curr_comp_pair_index])

\* the document as the dict load_review_packet is given after json.dump and
\* json.load: every key of the document is a key of the dict
AsPacket(doc) ==
    [keys |-> nec_keys \cup {"curr_comp_pair_index"},
     file_L |-> doc.file_L, file_L_ids |-> ListIds(doc.file_L_ids),
     file_R |-> doc.file_R, file_R_ids |-> ListIds(doc.file_R_ids),
     file_comps |-> doc.file_comps, var_group_schema |-> doc.var_group_schema,
     label_choices |-> StrList(doc.label_choices),
     curr_comp_pair_index |-> doc.curr_comp_pair_index]

\* ------------------------------------------------------------------------
\* Navigation: rlr.CL_process_choice and the callbacks of the review pages
\* ------------------------------------------------------------------------
Rows(s) == Len(s.comp_df.rows)
LabelAt(s, i) == s.comp_df.rows[i + 1].rlr_label

\* pages/02_Linkage_Review.py
\* a next button that does not stop at the last row
next_pair_NoStop(s) ==
    IF s.comp_df.st # "df" THEN Raise(s, "AttributeError")
    ELSE Ok([s EXCEPT !.curr_comp_pair_index = @ + 1])

next_pair(s) ==
    IF s.comp_df.st # "df" THEN Raise(s, "AttributeError")
    ELSE IF s.curr_comp_pair_index < Rows(s) - 1
         THEN Ok([s EXCEPT !.curr_comp_pair_index = @ + 1])
         ELSE Ok(s)

prev_pair(s) ==
    IF s.comp_df.st = "unset" THEN Raise(s, "AttributeError")
    ELSE IF s.curr_comp_pair_index > 0
         THEN Ok([s EXCEPT !.curr_comp_pair_index = @ - 1])
         ELSE Ok(s)

\* a scan that stops on the first row it looks at
ScanForward_NoSkip(s, curr_ind) == curr_ind

\* the while loop of next_unlabeled_pair, entered with curr_ind
RECURSIVE ScanForward(_, _)
ScanForward(s, curr_ind) ==
    IF curr_ind < Rows(s) - 1 /\ LabelAt(s, curr_ind) # ""
    THEN ScanForward(s, curr_ind + 1)
    ELSE curr_ind

next_unlabeled_pair(s) ==
    IF s.comp_df.st # "df" THEN Raise(s, "AttributeError")
    ELSE IF s.curr_comp_pair_index = Rows(s) - 1 THEN Ok(s)
    \* comp_df.loc[curr_ind, label_col] of an index past the last row
    ELSE IF s.curr_comp_pair_index + 1 > Rows(s) - 1 THEN Raise(s, "KeyError")
    ELSE Ok([s EXCEPT !.curr_comp_pair_index =
                        ScanForward(s, s.curr_comp_pair_index + 1)])

\* the while loop of prev_unlabeled_pair, entered with curr_ind
RECURSIVE ScanBackward(_, _)
ScanBackward(s, curr_ind) ==
    IF curr_ind > 0 /\ LabelAt(s, curr_ind) # ""
    THEN ScanBackward(s, curr_ind - 1)
    ELSE curr_ind

prev_unlabeled_pair(s) ==
    IF s.comp_df.st = "unset" THEN Raise(s, "AttributeError")
    ELSE IF s.curr_comp_pair_index <= 0 THEN Ok(s)
    ELSE IF s.comp_df.st # "df" THEN Raise(s, "AttributeError")
    ELSE Ok([s EXCEPT !.curr_comp_pair_index =
                        ScanBackward(s, s.curr_comp_pair_index - 1)])

\* pages/02_review.py
review_next_pair(s) ==
    IF s.comp_df.st # "df" THEN Raise(s, "AttributeError")
    ELSE IF s.curr_comp_pair_index < Rows(s) - 1
         THEN Ok([s EXCEPT !.curr_comp_pair_index = @ + 1])
         ELSE Ok(s)

review_prev_pair(s) ==
    IF s.comp_df.st = "unset" THEN Raise(s, "AttributeError")
    ELSE IF s.curr_comp_pair_index < 0
         THEN Ok([s EXCEPT !.curr_comp_pair_index = @ - 1])
         ELSE Ok(s)

\* rlr.CL_comparison_query up to its prompt (the choice typed there is the
\* argument of CL_process_choice)
CL_comparison_query(s, comp_ind) ==
    IF ~s.ready_to_review
    THEN [self |-> s, err |-> "", warn |-> {"not ready"}, val |-> PyNone]
    ELSE IF ~(0 <= comp_ind /\ comp_ind <= Len(s.comp_df.rows) - 1)
    THEN Raise(s, "AssertionError")
    ELSE
    LET raw == get_comp_pair(s, "raw", comp_ind)
        grouped == get_comp_pair(s, "grouped", comp_ind)
    IN  IF raw.err # "" THEN raw
        \* table_data['l_rec'] of None
        ELSE IF raw.val = PyNone THEN Raise(s, "TypeError")
        ELSE IF grouped.err # "" THEN grouped
        \* max() of an empty list
        ELSE IF s.var_schema = <<>> THEN Raise(s, "ValueError")
        ELSE Ok(s)

\* a choice typed at the command line: a digit, or one of the option letters
Digit(n) == [c |-> "digit", n |-> n]
Letter(c) == [c |-> c, n |-> 0]

\* go_to is the first valid number typed at the prompt of 'g' (1..Rows);
\* note_text the text typed at the prompt of 'a'
CL_process_choice(s, comp_choice, go_to, note_text) ==
    IF s.comp_df.st # "df" THEN Raise(s, "AttributeError")
    ELSE IF comp_choice = Digit(0)
    THEN save_label_or_note(s, "", "label", s.curr_comp_pair_index)
    ELSE IF comp_choice.c = "digit" /\ comp_choice.n \in 1..Len(s.label_choices)
    THEN save_label_or_note(s, s.label_choices[comp_choice.n], "label",
                            s.curr_comp_pair_index)
    ELSE IF comp_choice.c = "p"
    THEN IF s.curr_comp_pair_index = 0 THEN Ok(s)
         ELSE Ok([s EXCEPT !.curr_comp_pair_index = @ - 1])
    ELSE IF comp_choice.c = "n"
    THEN IF s.curr_comp_pair_index = Rows(s) - 1 THEN Ok(s)
         ELSE Ok([s EXCEPT !.curr_comp_pair_index = @ + 1])
    ELSE IF comp_choice.c = "g"
    THEN Ok([s EXCEPT !.curr_comp_pair_index = go_to - 1])
    ELSE IF comp_choice.c = "a"
    THEN save_label_or_note(s, note_text, "note", s.curr_comp_pair_index)
    ELSE IF comp_choice.c = "s"
    THEN LET r == get_label_counts(s) IN IF r.err # "" THEN r ELSE Ok(s)
    ELSE IF comp_choice.c = "e" THEN Ok(s)
    ELSE Raise(s, "NotImplementedError")

\* ------------------------------------------------------------------------
\* pages/02_Linkage_Review.py: one run of the script below the sidebar
\* ------------------------------------------------------------------------
\* the widget was not touched in this run
Keep == "<keep>"

\* st.text_input(value = old_note): the value is cast to str
NoteShown(old_note) == IF old_note = NaN THEN "nan" ELSE old_note

\* lines 177-185, 191-193: the radio stands on the stored label if it is a
\* choice and on "No Label" otherwise, unless the reviewer clicked a choice
LabelShown(s, curr_label, chosen) ==
    IF chosen # Keep THEN chosen
    ELSE IF curr_label \in Range(s.label_choices) THEN curr_label
    ELSE "No Label"

\* lines 144-200; typed is the note the reviewer typed, chosen the radio
\* option the reviewer clicked (Keep: none)
review_page(s, typed, chosen) ==
    IF ~s.ready_to_review THEN Ok(s)
    ELSE
    LET cur == s.curr_comp_pair_index
        curr_comp_data == get_comp_pair(s, "grouped", cur)
    IN  IF curr_comp_data.err # "" THEN curr_comp_data
        \* for var_group in None
        ELSE IF curr_comp_data.val = PyNone THEN Raise(s, "TypeError")
        ELSE
        LET old_note == s.comp_df.rows[cur + 1].rlr_note
            new_note == IF typed # Keep THEN typed ELSE NoteShown(old_note)
            r1 == save_label_or_note(s, new_note, "note", cur)
            curr_label == s.comp_df.rows[cur + 1].rlr_label
            shown == LabelShown(s, curr_label, chosen)
            new_label == IF shown = "No Label" THEN "" ELSE shown
        IN  IF r1.err # "" THEN r1
            ELSE save_label_or_note(r1.self, new_label, "label", cur)

\* ------------------------------------------------------------------------
\* pages/01_data_input.py: the 'load a different ...' buttons
\* ------------------------------------------------------------------------
remove_data_file(s, side) ==
    IF side = "l"
    THEN Ok([s EXCEPT !.dataL_loaded = FALSE, !.dataL = NoneFrame,
                      !.ready_to_review = FALSE])
    ELSE IF side = "r"
    THEN Ok([s EXCEPT !.dataR_loaded = FALSE, !.dataR = NoneFrame,
                      !.ready_to_review = FALSE])
    ELSE Raise(s, "NotImplementedError")

remove_comp_file(s) ==
    Ok([s EXCEPT !.comps_loaded = FALSE, !.comp_df = NoneComp,
                 !.ready_to_review = FALSE])

\* ------------------------------------------------------------------------
\* The state machine: rlr() and one action per call
\* ------------------------------------------------------------------------
\* the call ended as r: the session is the one r leaves (a call that raised
\* keeps what it had assigned before)
Done(r) == Becomes(r.self)

\* rlr.__init__ without a review packet; comps.csv holds the raw pairs
Init ==
    /\ dataL_loaded = FALSE
    /\ dataR_loaded = FALSE
    /\ comps_loaded = FALSE
    /\ var_schema_loaded = FALSE
    /\ ready_to_review = FALSE
    /\ label_choices = DEFAULT_LABELS
    /\ autosave = DEFAULT_AUTOSAVE
    /\ id_vars_l = <<>>
    /\ id_vars_r = <<>>
    /\ dataL = UnsetFrame
    /\ dataR = UnsetFrame
    /\ dataL_file_path = Unset
    /\ dataR_file_path = Unset
    /\ comp_pairs_file_path = Unset
    /\ comp_df = UnsetComp
    /\ curr_comp_pair_index = 0
    /\ var_schema = <<>>
    /\ disk = CompFile0
    /\ clock = 0

\* One action per method; the arguments of a call are drawn from the pool
\* the specification passes.

\* calls is a set of argument records [src, ids, side]
LoadDatasetOf(calls) ==
    \E c \in calls : Done(load_dataset(Self, c.src, c.ids, c.side))

LoadCompPairsOf(srcs) ==
    \E src \in srcs : Done(load_comp_pairs(Self, src))

SetVarCompSchemaOf(schemas) ==
    \E schema \in schemas : Done(set_var_comp_schema(Self, schema))

SetLabelChoicesOf(inputs) ==
    \E choices \in inputs : Done(set_label_choices(Self, choices))

LoadReviewPacketOf(packets) ==
    \E rev_packet \in packets : Done(load_review_packet(Self, rev_packet))

\* comp_ind = None stands for curr_comp_pair_index (line 286)
IndexArg(comp_ind) ==
    IF comp_ind = NoIndex THEN curr_comp_pair_index ELSE comp_ind

SaveLabelOrNoteOf(texts) ==
    /\ clock < MaxClock
    /\ \E text \in texts, kind \in KindInputs,
          comp_ind \in (0..MaxCompRows) \cup {NoIndex} :
            Done(save_label_or_note(Self, text, kind, IndexArg(comp_ind)))

CLProcessChoiceOf(choices, notes) ==
    /\ clock < MaxClock
    /\ \E choice \in choices, go_to \in 1..(MaxCompRows + 1), note_text \in notes :
        /\ comp_df.st = "df" => go_to <= Len(comp_df.rows)
        /\ Done(CL_process_choice(Self, choice, go_to, note_text))

\* ------------------------------------------------------------------------
\* Spec: one review session, every method, on the files of one project
\* ------------------------------------------------------------------------
DataCall(src, ids, side) == [src |-> src, ids |-> ids, side |-> side]
\* ab.csv is the left file, cd.dta the right one; the frame cannot be used
\* with b as its id
SessionDataCalls ==
    {DataCall(PathSrc("ab.csv"), ListIds(<<"a", "b">>), "l"),
     DataCall(PathSrc("cd.dta"), StrIds("c"), "R"),
     DataCall(FrameSrc(TableAB2), ListIds(<<"b">>), "l")}
\* an uploaded table of three pairs, the second of which does not resolve
\* although it is not flagged
ThreePairs == RawComp({"a", "b", "c", "d"}, <<PairOk, PairHalf, PairOk>>)
SessionCompSources ==
    {PathSrc("comps.csv"), PathSrc("gone.csv"), FrameSrc(ThreePairs)}
SessionSchemas == {<<GroupA>>, <<GroupA, GroupBadVar>>}
SessionLabelChoices == {StrList(<<>>), StrList(DEFAULT_LABELS),
                        StrList(<<"", "Match">>), StrList(<<"Unlabeled">>),
                        NotAList}
SessionTexts == {"", "Match", "Maybe"}
SessionChoices == {Digit(0), Digit(1), Digit(3)}
                  \cup {Letter(c) : c \in {"p", "n", "g", "a", "s", "e", "x"}}

LoadDataset ==
    /\ LoadDatasetOf(SessionDataCalls)
LoadCompPairs ==
    /\ LoadCompPairsOf(SessionCompSources)
SetVarCompSchema ==
    /\ SetVarCompSchemaOf(SessionSchemas)
SetLabelChoices ==
    /\ SetLabelChoicesOf(SessionLabelChoices)
LoadReviewPacket ==
    /\ LoadReviewPacketOf(PacketInputs)
GetCompPair ==
    /\ \E fmt \in FormatInputs, comp_ind \in (-1..MaxCompRows) \cup {NoIndex} :
            Done(get_comp_pair(Self, fmt, IndexArg(comp_ind)))
GetLabelCounts ==
    /\ Done(get_label_counts(Self))
SaveLabelOrNote ==
    /\ SaveLabelOrNoteOf(SessionTexts)
CLProcessChoice ==
    /\ CLProcessChoiceOf(SessionChoices, {"see file"})
NextPair ==
    /\ Done(next_pair(Self))
PrevPair ==
    /\ Done(prev_pair(Self))
NextUnlabeledPair ==
    /\ Done(next_unlabeled_pair(Self))
PrevUnlabeledPair ==
    /\ Done(prev_unlabeled_pair(Self))
ReviewNextPair ==
    /\ Done(review_next_pair(Self))
ReviewPrevPair ==
    /\ Done(review_prev_pair(Self))

Next ==
    \/ LoadDataset
    \/ LoadCompPairs
    \/ SetVarCompSchema
    \/ SetLabelChoices
    \/ LoadReviewPacket
    \/ GetCompPair
    \/ GetLabelCounts
    \/ SaveLabelOrNote
    \/ CLProcessChoice
    \/ NextPair
    \/ PrevPair
    \/ NextUnlabeledPair
    \/ PrevUnlabeledPair
    \/ ReviewNextPair
    \/ ReviewPrevPair

Spec == Init /\ [][Next]_vars

\* ------------------------------------------------------------------------
\* SpecLoad: the loading methods on every table, id list and side
\* ------------------------------------------------------------------------
AnyDataCalls ==
    {DataCall(src, ids, side) :
        src \in DataSources, ids \in IdInputs, side \in SideInputs}

\* a table downloaded from an earlier review and uploaded again: read_csv of
\* a file that has the review columns
LabeledUpload ==
    ReadCsv([st |-> "df", cols |-> {"a", "b", "c", "d"}, rev |-> TRUE,
             rows |-> <<[ids |-> PairOk, rlr_label |-> "Match",
                         rlr_label_ind |-> 1, rlr_modified |-> 1,
                         rlr_note |-> ""],
                        [ids |-> PairMiss, rlr_label |-> "",
                         rlr_label_ind |-> -1, rlr_modified |-> NoTime,
                         rlr_note |-> "see file"]>>])
AnyCompSources == CompSources \cup {FrameSrc(LabeledUpload)}

LoadAnyDataset ==
    /\ LoadDatasetOf(AnyDataCalls)
LoadAnyCompPairs ==
    /\ LoadCompPairsOf(AnyCompSources)
SetAnyVarCompSchema ==
    /\ SetVarCompSchemaOf(SchemaInputs)

NextLoad ==
    \/ LoadAnyDataset
    \/ LoadAnyCompPairs
    \/ SetAnyVarCompSchema
    \/ GetCompPair

SpecLoad == Init /\ [][NextLoad]_vars

\* ------------------------------------------------------------------------
\* SpecReview: the Linkage Review page with its sidebar, on a session that
\* saves to the comparison file
\* ------------------------------------------------------------------------
\* sidebar lines 103-106 and direct calls
SetAutosave ==
    /\ \E autosave_bool \in BOOLEAN : Done(set_autosave(Self, autosave_bool))

\* the packet of the project, opened from the home page
OpenReviewPacket ==
    /\ LoadReviewPacketOf({Packet("cd.dta", <<GroupA>>, {}, NoIndex)})

\* sidebar lines 117-123: the text area of the label choices
ChangeLabelChoices ==
    /\ SetLabelChoicesOf({StrList(DEFAULT_LABELS), StrList(<<"Maybe">>)})

\* two writes, each with its own time
RenderReviewPage ==
    /\ clock < MaxClock
    /\ \E typed \in {Keep, "see file"}, chosen \in {Keep, "No Label", "Match"} :
        /\ chosen \in {Keep, "No Label"} \cup Range(label_choices)
        /\ Done(review_page(Self, typed, chosen))

NextReview ==
    \/ OpenReviewPacket
    \/ LoadCompPairs
    \/ SetAutosave
    \/ ChangeLabelChoices
    \/ SaveLabelOrNote
    \/ RenderReviewPage
    \/ NextPair
    \/ PrevPair

SpecReview == Init /\ [][NextReview]_vars

\* ========================================================================
\* Properties
\* ========================================================================

\* ------------------------------------------------------------------------
\* C1: in every reachable state ready_to_review equals the conjunction of
\* dataL_loaded, dataR_loaded, comps_loaded, var_schema_loaded and a
\* non-empty label_choices; the flag is never stale.
\* ------------------------------------------------------------------------
C1_ReadyNeverStale ==
    ready_to_review = (/\ dataL_loaded
                       /\ dataR_loaded
                       /\ comps_loaded
                       /\ var_schema_loaded
                       /\ Len(label_choices) > 0)

\* ------------------------------------------------------------------------
\* C2: while a comparison table is loaded the cursor is a row of it:
\* 0 <= curr_comp_pair_index <= row_count - 1, whatever navigation, loads and
\* review packets (also with an out-of-range cursor) came before.
\* ------------------------------------------------------------------------
C2_CursorInRange ==
    comps_loaded =>
        /\ comp_df.st = "df"
        /\ 0 <= curr_comp_pair_index
        /\ curr_comp_pair_index <= Len(comp_df.rows) - 1

\* the cursor stands on the last of three rows, one of which is labeled
C2_Witness ==
    /\ comps_loaded
    /\ Len(comp_df.rows) = 3
    /\ curr_comp_pair_index = 2
    /\ \E i \in DOMAIN comp_df.rows : comp_df.rows[i].rlr_label # ""

\* ------------------------------------------------------------------------
\* C3: a successful load_dataset leaves var_schema_loaded and comps_loaded
\* false, and each stays false until set_var_comp_schema, respectively
\* load_comp_pairs, succeeds again (directly or inside load_review_packet).
\* ------------------------------------------------------------------------
\* the step is a call of load_dataset that returned
IsLoadDatasetStep ==
    \E c \in SessionDataCalls :
        LET r == load_dataset(Self, c.src, c.ids, c.side)
        IN  r.err = "" /\ Becomes(r.self)

\* the step is a call in which load_comp_pairs returned
IsLoadCompPairsStep ==
    \/ \E src \in SessionCompSources :
        LET r == load_comp_pairs(Self, src) IN r.err = "" /\ Becomes(r.self)
    \/ \E p \in PacketInputs : Becomes(load_review_packet(Self, p).self)

\* the step is a call in which set_var_comp_schema returned
IsSetSchemaStep ==
    \/ \E schema \in SessionSchemas :
        LET r == set_var_comp_schema(Self, schema)
        IN  r.err = "" /\ Becomes(r.self)
    \/ \E p \in PacketInputs : Becomes(load_review_packet(Self, p).self)

C3_LoadDatasetInvalidates ==
    [][/\ IsLoadDatasetStep => (~var_schema_loaded' /\ ~comps_loaded')
       /\ (~comps_loaded /\ comps_loaded') => IsLoadCompPairsStep
       /\ (~var_schema_loaded /\ var_schema_loaded') => IsSetSchemaStep]_vars

\* a data set was loaded after a comparison table and a schema had been set
C3_Witness ==
    /\ dataL_loaded
    /\ dataR_loaded
    /\ ~comps_loaded
    /\ ~var_schema_loaded
    /\ comp_df.st = "df"
    /\ var_schema # <<>>

\* ------------------------------------------------------------------------
\* C4: load_dataset succeeds only if id_vars is non-empty, every id column
\* exists in the data, the id tuples are unique across rows and id_vars is
\* disjoint from the id columns of the other side when that side is loaded;
\* in every other case it raises and leaves the data sets, the id lists and
\* the loaded flags (indeed the whole object) as they were.
\* ------------------------------------------------------------------------
C4_LoadDatasetChecks ==
    \A c \in AnyDataCalls :
        LET r == load_dataset(Self, c.src, c.ids, c.side)
            left == c.side \in {"l", "L"}
            ids == IF left THEN r.self.id_vars_l ELSE r.self.id_vars_r
            data == IF left THEN r.self.dataL ELSE r.self.dataR
            other_loaded == IF left THEN dataR_loaded ELSE dataL_loaded
            other_ids == IF left THEN id_vars_r ELSE id_vars_l
        IN  IF r.err = ""
            THEN /\ c.side \in {"l", "L", "r", "R"}
                 /\ ids = (IF c.ids.kind = "str" THEN <<c.ids.s>> ELSE c.ids.l)
                 /\ ids # <<>>
                 /\ Range(ids) \subseteq data.cols
                 /\ Cardinality({[k \in DOMAIN ids |-> data.rows[i][ids[k]]] :
                                    i \in DOMAIN data.rows}) = Len(data.rows)
                 /\ other_loaded => Range(ids) \cap Range(other_ids) = {}
            ELSE r.self = Self

\* both sides are loaded under two id columns each, the left from a table
\* that only the pair (a, b) identifies; loads then fail on overlap, on a
\* missing column and on duplicate ids
C4_Witness ==
    /\ dataL_loaded
    /\ dataR_loaded
    /\ id_vars_l = <<"a", "b">>
    /\ dataL.rows = TableAB2.rows
    /\ id_vars_r = <<"c", "d">>
    /\ load_dataset(Self, FrameSrc(TableAB2), StrIds("a"), "l").err
            = "AssertionError"
    /\ load_dataset(Self, FrameSrc(TableCD), ListIds(<<"c", "d">>), "l").err
            = "AssertionError"
    /\ load_dataset(Self, FrameSrc(TableCD), StrIds("c"), "r").err = ""

\* ------------------------------------------------------------------------
\* the id tuples of a comparison row, over all id columns of each side, are
\* keys of the loaded data sets
RowResolves(ids) ==
    /\ \E i \in DOMAIN dataL.rows :
            \A k \in DOMAIN id_vars_l : dataL.rows[i][id_vars_l[k]] = ids[id_vars_l[k]]
    /\ \E j \in DOMAIN dataR.rows :
            \A k \in DOMAIN id_vars_r : dataR.rows[j][id_vars_r[k]] = ids[id_vars_r[k]]

\* ------------------------------------------------------------------------
\* C5: after load_comp_pairs the label indicator is -1 for exactly the rows
\* whose left or right id tuple (over all id columns of the side) is absent
\* from the loaded data set, and for no other row.
\* ------------------------------------------------------------------------
C5_FlagsExact ==
    comps_loaded =>
        \A i \in DOMAIN comp_df.rows :
            (comp_df.rows[i].rlr_label_ind = -1)
                <=> ~RowResolves(comp_df.rows[i].ids)

\* ------------------------------------------------------------------------
\* C6: with a comparison table loaded, the counts of get_label_counts sum
\* to the number of comparison rows, for every accepted list of label
\* choices and every combination of stored labels.
\* ------------------------------------------------------------------------
C6_CountsSumToRows ==
    comps_loaded =>
        LET r == get_label_counts(Self)
        IN  /\ r.err = ""
            /\ SumValues(r.val.counts) = Len(comp_df.rows)

\* ------------------------------------------------------------------------
\* C7: get_label_counts maps "Unlabeled" to the number of rows with an empty
\* label, every label choice to the number of rows that carry it, and every
\* other label found in the data to its number of rows.
\* ------------------------------------------------------------------------
C7_RowsLabeled(label) ==
    Cardinality({i \in DOMAIN comp_df.rows : comp_df.rows[i].rlr_label = label})

C7_Buckets ==
    comps_loaded =>
        LET counts == get_label_counts(Self).val.counts
            in_data == {comp_df.rows[i].rlr_label : i \in DOMAIN comp_df.rows}
                       \ {""}
        IN  /\ "Unlabeled" \in DOMAIN counts
            /\ counts["Unlabeled"] = C7_RowsLabeled("")
            /\ \A k \in DOMAIN label_choices :
                /\ label_choices[k] \in DOMAIN counts
                /\ counts[label_choices[k]] = C7_RowsLabeled(label_choices[k])
            /\ \A label \in in_data :
                /\ label \in DOMAIN counts
                /\ counts[label] = C7_RowsLabeled(label)

\* ------------------------------------------------------------------------
\* C8: data-quality conditions never abort load_comp_pairs: with both data
\* sets loaded and the id columns present, a table with duplicate id tuples
\* or with fewer than 0.8 of its rows found still loads, comps_loaded ends
\* true and every source row is in comp_df at its own position 0..N-1.
\* ------------------------------------------------------------------------
\* the table behind a source of load_comp_pairs (a frame, or the file read)
C8_SourceTable(src) == IF src.kind = "frame" THEN src.table ELSE disk

C8_HasDuplicates(t) ==
    \E i, j \in DOMAIN t.rows :
        /\ i # j
        /\ \A v \in Range(id_vars_l) \cup Range(id_vars_r) :
                t.rows[i].ids[v] = t.rows[j].ids[v]

C8_FoundBelowThreshold(t) ==
    Cardinality({i \in DOMAIN t.rows : RowResolves(t.rows[i].ids)}) * ThreshDen
        < ThreshNum * Len(t.rows)

C8_QualityNeverAborts ==
    (dataL_loaded /\ dataR_loaded) =>
        \A src \in AnyCompSources :
            LET t == C8_SourceTable(src)
                r == load_comp_pairs(Self, src)
            IN  (/\ src.kind = "path" => src.path = "comps.csv"
                 /\ Range(id_vars_l) \cup Range(id_vars_r) \subseteq t.cols
                 /\ C8_HasDuplicates(t) \/ C8_FoundBelowThreshold(t))
                => /\ r.err = ""
                   /\ r.self.comps_loaded
                   /\ Len(r.self.comp_df.rows) = Len(t.rows)
                   /\ \A i \in DOMAIN t.rows :
                        r.self.comp_df.rows[i].ids = t.rows[i].ids

\* a table of two equal rows, neither of which resolves, is loaded
C8_Witness ==
    /\ comps_loaded
    /\ Len(comp_df.rows) = 2
    /\ comp_df.rows[1].ids = comp_df.rows[2].ids
    /\ \A i \in DOMAIN comp_df.rows :
        /\ ~RowResolves(comp_df.rows[i].ids)
        /\ comp_df.rows[i].rlr_label_ind = -1

\* ------------------------------------------------------------------------
\* C9: for every comparison row whose ids do not resolve in the loaded data
\* sets get_comp_pair returns None and never raises a lookup error, also
\* after save_label_or_note has written a label or a note to the row.
\* ------------------------------------------------------------------------
C9_UnresolvedIsNone ==
    (dataL_loaded /\ dataR_loaded /\ comps_loaded) =>
        \A i \in DOMAIN comp_df.rows :
            ~RowResolves(comp_df.rows[i].ids) =>
                \A fmt \in {"raw", "grouped"} :
                    LET r == get_comp_pair(Self, fmt, i - 1)
                    IN  r.err = "" /\ r.val = PyNone

\* ------------------------------------------------------------------------
\* C10: for every row in range whose ids resolve, get_comp_pair('raw')
\* returns the left and the right record that carry the row's id tuples and
\* get_comp_pair('grouped') returns, per schema group in schema order, the
\* values of those records at the group's lvars and rvars in list order;
\* 'grouped' fails without a schema and an index out of range fails.
\* ------------------------------------------------------------------------
C10_IsRecordOf(rec, frame, idv, ids) ==
    /\ \E i \in DOMAIN frame.rows : frame.rows[i] = rec
    /\ \A k \in DOMAIN idv : rec[idv[k]] = ids[idv[k]]

C10_Projection(rec, fields) == [k \in DOMAIN fields |-> rec[fields[k]]]

C10_ReturnsTheRecords ==
    (dataL_loaded /\ dataR_loaded /\ comps_loaded) =>
        \A ind \in -1 .. Len(comp_df.rows) :
            LET raw == get_comp_pair(Self, "raw", ind)
                grouped == get_comp_pair(Self, "grouped", ind)
            IN  IF ind < 0 \/ ind > Len(comp_df.rows) - 1
                THEN raw.err # "" /\ grouped.err # ""
                ELSE RowResolves(comp_df.rows[ind + 1].ids) =>
                    /\ raw.err = ""
                    /\ raw.val.kind = "raw"
                    /\ C10_IsRecordOf(raw.val.l_rec, dataL, id_vars_l,
                                      comp_df.rows[ind + 1].ids)
                    /\ C10_IsRecordOf(raw.val.r_rec, dataR, id_vars_r,
                                      comp_df.rows[ind + 1].ids)
                    /\ IF ~var_schema_loaded THEN grouped.err # ""
                       ELSE /\ grouped.err = ""
                            /\ grouped.val.kind = "grouped"
                            /\ DOMAIN grouped.val.groups = DOMAIN var_schema
                            /\ \A g \in DOMAIN var_schema :
                                /\ grouped.val.groups[g].name = var_schema[g].name
                                /\ grouped.val.groups[g].lvals =
                                    C10_Projection(raw.val.l_rec, var_schema[g].lvars)
                                /\ grouped.val.groups[g].rvals =
                                    C10_Projection(raw.val.r_rec, var_schema[g].rvars)

\* ------------------------------------------------------------------------
\* C11: in every front end (the command line, the Linkage Review page and
\* the review page) 'next' adds 1 to the cursor below the last row and does
\* nothing on it, 'previous' subtracts 1 above row 0 and does nothing on it;
\* neither raises.
\* ------------------------------------------------------------------------
C11_NextPrevClamp ==
    comps_loaded =>
        LET last == Len(comp_df.rows) - 1
            cur == curr_comp_pair_index
            nexts == {next_pair(Self), review_next_pair(Self),
                      CL_process_choice(Self, Letter("n"), 1, "")}
            prevs == {prev_pair(Self), review_prev_pair(Self),
                      CL_process_choice(Self, Letter("p"), 1, "")}
        IN  /\ \A r \in nexts :
                /\ r.err = ""
                /\ r.self = [Self EXCEPT !.curr_comp_pair_index =
                                IF cur < last THEN cur + 1 ELSE cur]
            /\ \A r \in prevs :
                /\ r.err = ""
                /\ r.self = [Self EXCEPT !.curr_comp_pair_index =
                                IF cur > 0 THEN cur - 1 ELSE cur]

\* ------------------------------------------------------------------------
\* C12: next_unlabeled_pair moves the cursor to the nearest later row whose
\* label is the empty string, or to the last row if there is none;
\* prev_unlabeled_pair moves it to the nearest earlier such row, or to row 0;
\* both return, and do nothing at their boundary.
\* ------------------------------------------------------------------------
C12_EmptyRows(from, to) ==
    {j \in from .. to : comp_df.rows[j + 1].rlr_label = ""}

C12_UnlabeledScan ==
    comps_loaded =>
        LET last == Len(comp_df.rows) - 1
            cur == curr_comp_pair_index
            later == C12_EmptyRows(cur + 1, last)
            earlier == C12_EmptyRows(0, cur - 1)
            fwd == next_unlabeled_pair(Self)
            bwd == prev_unlabeled_pair(Self)
        IN  /\ fwd.err = ""
            /\ fwd.self = [Self EXCEPT !.curr_comp_pair_index =
                    IF cur = last THEN cur
                    ELSE IF later = {} THEN last
                    ELSE CHOOSE j \in later : \A k \in later : j <= k]
            /\ bwd.err = ""
            /\ bwd.self = [Self EXCEPT !.curr_comp_pair_index =
                    IF cur = 0 THEN cur
                    ELSE IF earlier = {} THEN 0
                    ELSE CHOOSE j \in earlier : \A k \in earlier : j >= k]

\* the cursor is on the first of three rows, the second row is labeled and
\* the third is not: the forward scan skips one row
C12_Witness ==
    /\ comps_loaded
    /\ Len(comp_df.rows) = 3
    /\ curr_comp_pair_index = 0
    /\ comp_df.rows[2].rlr_label \notin {"", NaN}
    /\ comp_df.rows[3].rlr_label = ""
    /\ next_unlabeled_pair(Self).self.curr_comp_pair_index = 2

\* ------------------------------------------------------------------------
\* C13: in a ready session save_label_or_note(text, 'label', idx), with text
\* "" or a label choice and idx in range, sets the label of row idx to text,
\* its indicator to 1 if text is non-empty and to 0 if it is empty, and its
\* modification time to a time later than the one it had.
\* ------------------------------------------------------------------------
C13_LabelWritten ==
    ready_to_review =>
        \A text \in {""} \cup Range(label_choices), i \in DOMAIN comp_df.rows :
            LET r == save_label_or_note(Self, text, "label", i - 1)
                row == r.self.comp_df.rows[i]
            IN  /\ row.rlr_label = text
                /\ text # "" => row.rlr_label_ind = 1
                /\ text = "" => row.rlr_label_ind = 0
                /\ row.rlr_modified > comp_df.rows[i].rlr_modified

\* a row carries a label, the indicator 1 and the time of the last write
C13_Witness ==
    /\ ready_to_review
    /\ clock >= 1
    /\ \E i \in DOMAIN comp_df.rows :
        /\ comp_df.rows[i].rlr_label = "Match"
        /\ comp_df.rows[i].rlr_label_ind = 1
        /\ comp_df.rows[i].rlr_modified = clock

\* ------------------------------------------------------------------------
\* C14: save_label_or_note with kind 'label' and a text that is neither ""
\* nor a label choice fails with an error and leaves the row, every other
\* row and the backing file as they were.
\* ------------------------------------------------------------------------
C14_InvalidTexts == SessionTexts \ ({""} \cup Range(label_choices))

\* the claim as stated, for every session that has a table and a targeted row
C14_InvalidLabelFails ==
    comps_loaded =>
        \A text \in C14_InvalidTexts, comp_ind \in 0 .. Len(comp_df.rows) - 1 :
            LET r == save_label_or_note(Self, text, "label", comp_ind)
            IN  r.err # "" /\ r.self = Self

\* C14 as amended: the error is raised in a ready session; a session that is
\* not ready returns with a warning; neither changes a row or the file
C14_InvalidLabelRejected ==
    \A text \in C14_InvalidTexts, comp_ind \in -1 .. Len(comp_df.rows) :
        LET r == save_label_or_note(Self, text, "label", comp_ind)
        IN  /\ r.self = Self
            /\ ready_to_review => r.err = "AssertionError"
            /\ ~ready_to_review => (r.err = "" /\ r.warn # {})

\* a ready session that has a labeled row and is offered a text that is not
\* a choice
C14_Witness ==
    /\ ready_to_review
    /\ C14_InvalidTexts # {}
    /\ \E i \in DOMAIN comp_df.rows : comp_df.rows[i].rlr_label_ind = 1

\* ------------------------------------------------------------------------
\* C15: autosave is on only while the loaded comparison table has a known
\* backing file path.
\* ------------------------------------------------------------------------
C15_AutosaveHasPath ==
    autosave => comp_pairs_file_path \notin {None, Unset}

\* ------------------------------------------------------------------------
\* C16: set_autosave(True) without a backing path (table loaded from a data
\* frame, or no table loaded at all) raises nothing and leaves autosave as
\* it was; set_autosave(False) always sets autosave to False.
\* ------------------------------------------------------------------------
C16_SetAutosaveSilent ==
    /\ comp_pairs_file_path \in {None, Unset} =>
        LET r == set_autosave(Self, TRUE)
        IN  r.err = "" /\ r.self = Self
    /\ LET r == set_autosave(Self, FALSE)
       IN  r.err = "" /\ r.self = [Self EXCEPT !.autosave = FALSE]

C18_Removed(i) ==
    comp_df.rows[i].rlr_label \notin {"", NaN} \cup Range(label_choices)

C18_StoredLabelKept ==
    /\ \A choices \in {StrList(DEFAULT_LABELS), StrList(<<"Maybe">>)} :
        set_label_choices(Self, choices).self.comp_df = comp_df
    /\ next_pair(Self).self.comp_df = comp_df
    /\ prev_pair(Self).self.comp_df = comp_df
    /\ \A typed \in {Keep, "see file"} :
        LET r == review_page(Self, typed, Keep)
        IN  \A i \in DOMAIN comp_df.rows :
                C18_Removed(i) =>
                    r.self.comp_df.rows[i].rlr_label = comp_df.rows[i].rlr_label

\* ------------------------------------------------------------------------
\* C19: get_review_packet returns a document only when both data sets, the
\* comparison table and the schema are loaded, label_choices is non-empty and
\* the three tables came from file paths; otherwise it returns None; it
\* never changes the session.
\* ------------------------------------------------------------------------
C19_AllLoadedFromPaths ==
    /\ dataL_loaded
    /\ dataR_loaded
    /\ comps_loaded
    /\ var_schema_loaded
    /\ Len(label_choices) > 0
    /\ dataL_file_path \notin {None, Unset}
    /\ dataR_file_path \notin {None, Unset}
    /\ comp_pairs_file_path \notin {None, Unset}

C19_PacketOnlyWhenComplete ==
    LET r == get_review_packet(Self)
    IN  /\ r.self = Self
        /\ r.err = ""
        /\ r.val # PyNone => C19_AllLoadedFromPaths

\* ------------------------------------------------------------------------
\* C20: load_review_packet on a document that lacks one of the keys file_L,
\* file_L_ids, file_R, file_R_ids, file_comps, var_group_schema,
\* label_choices raises an error and leaves the whole session as it was.
\* ------------------------------------------------------------------------
C20_Mandatory == {"file_L", "file_L_ids", "file_R", "file_R_ids",
                  "file_comps", "var_group_schema", "label_choices"}

C21_NoChoicesLoads ==
    LET r == load_review_packet(Self, Packet("cd.dta", <<GroupA>>,
                                             {"label_choices"}, NoIndex))
    IN  r.err = "" /\ r.self.label_choices = DEFAULT_LABELS

\* ------------------------------------------------------------------------
\* C22: when load_review_packet returns, both data sets, the comparison
\* table and the schema are loaded, label_choices is the list of the packet,
\* ready_to_review is true, and the cursor is the packet's
\* curr_comp_pair_index if the key is there and within 0 .. row_count - 1,
\* and 0 otherwise.
\* ------------------------------------------------------------------------
C22_PacketLoadsAll ==
    \A rev_packet \in PacketInputs :
        LET r == load_review_packet(Self, rev_packet)
            t == r.self
            rev_ind == rev_packet.curr_comp_pair_index
            restored == /\ "curr_comp_pair_index" \in rev_packet.keys
                        /\ rev_ind \in 0 .. Len(t.comp_df.rows) - 1
        IN  r.err = "" =>
                /\ t.dataL_loaded /\ t.dataR_loaded
                /\ t.comps_loaded /\ t.var_schema_loaded
                /\ t.dataL = Frame(DataFiles[rev_packet.file_L])
                /\ t.dataR = Frame(DataFiles[rev_packet.file_R])
                /\ t.var_schema = rev_packet.var_group_schema
                /\ t.label_choices = <<"Match", "Maybe">>
                /\ t.ready_to_review
                /\ restored => t.curr_comp_pair_index = rev_ind
                /\ ~restored => t.curr_comp_pair_index = 0

\* a session that was reviewed and moved on is given a packet whose cursor
\* is past the last row, and loads it
C22_Witness ==
    /\ ready_to_review
    /\ curr_comp_pair_index = 1
    /\ label_choices # <<"Match", "Maybe">>
    /\ load_review_packet(Self, Packet("cd.dta", <<GroupA>>, {},
                                       Len(CompFile0.rows))).err = ""

\* ------------------------------------------------------------------------
\* C23: round trip.  In a ready session whose three tables came from paths,
\* load_review_packet of the document of get_review_packet gives a ready
\* session with the same left and right data, the same id columns, the same
\* schema, the same label choices and the same cursor.
\* ------------------------------------------------------------------------
C23_RoundTrip ==
    LET doc == get_review_packet(Self)
    IN  (ready_to_review /\ doc.val # PyNone) =>
            LET r == load_review_packet(Self, AsPacket(doc.val))
                t == r.self
            IN  /\ r.err = ""
                /\ t.ready_to_review
                /\ t.dataL = dataL /\ t.dataR = dataR
                /\ t.id_vars_l = id_vars_l /\ t.id_vars_r = id_vars_r
                /\ t.var_schema = var_schema
                /\ t.label_choices = label_choices
                /\ t.curr_comp_pair_index = curr_comp_pair_index

\* ------------------------------------------------------------------------
\* C24: set_var_comp_schema stores the schema and sets var_schema_loaded
\* only if both data sets are loaded and every lvars entry is a column of
\* the left and every rvars entry a column of the right data set; otherwise
\* it fails and leaves the stored schema and the flag as they were.  Hence
\* whenever var_schema_loaded holds and both data sets are loaded, every
\* field the stored schema names is a column of the loaded data sets.
\* ------------------------------------------------------------------------
C24_FieldsExist(schema, left, right) ==
    \A g \in DOMAIN schema :
        /\ Range(schema[g].lvars) \subseteq left.cols
        /\ Range(schema[g].rvars) \subseteq right.cols

C24_SchemaValidated ==
    /\ \A schema \in SchemaInputs :
        LET r == set_var_comp_schema(Self, schema)
        IN  /\ r.err = "" =>
                /\ dataL_loaded /\ dataR_loaded
                /\ C24_FieldsExist(schema, dataL, dataR)
                /\ r.self.var_schema = schema
                /\ r.self.var_schema_loaded
            /\ r.err # "" =>
                /\ r.self.var_schema = var_schema
                /\ r.self.var_schema_loaded = var_schema_loaded
            /\ (~dataL_loaded \/ ~dataR_loaded
                    \/ ~C24_FieldsExist(schema, dataL, dataR)) => r.err # ""
    /\ (var_schema_loaded /\ dataL_loaded /\ dataR_loaded)
            => C24_FieldsExist(var_schema, dataL, dataR)

\* a session with a schema of two groups refuses a schema with an unknown
\* field
C24_Witness ==
    /\ var_schema_loaded
    /\ dataL_loaded /\ dataR_loaded
    /\ var_schema = <<GroupB, GroupA>>
    /\ set_var_comp_schema(Self, <<GroupA, GroupBadVar>>).err = "AssertionError"

\* ------------------------------------------------------------------------
\* C25: with the cursor on a pair whose indicator is -1, the callers of
\* get_comp_pair (the command-line query and the Linkage Review page) take
\* the None result as an expected outcome: they do not fail, and the
\* reviewer can go on.
\* ------------------------------------------------------------------------
C25_OnFlaggedPair ==
    /\ ready_to_review
    /\ dataL_loaded /\ dataR_loaded /\ comps_loaded /\ var_schema_loaded
    /\ curr_comp_pair_index \in 0 .. Len(comp_df.rows) - 1
    /\ comp_df.rows[curr_comp_pair_index + 1].rlr_label_ind = -1

C25_NotFoundIsHandled ==
    C25_OnFlaggedPair =>
        /\ CL_comparison_query(Self, curr_comp_pair_index).err = ""
        /\ review_page(Self, Keep, Keep).err = ""

\* ------------------------------------------------------------------------
\* C26: save_label_or_note(text, kind, idx) changes only row idx: with kind
\* 'label' only its label, indicator and modification time, with kind 'note'
\* only its note (the text as given, whatever it is) and modification time;
\* the other rows, the number and order of the rows, the cursor and
\* label_choices stay as they are, and an idx out of range fails (the call
\* raises, or warns and returns without writing) and changes nothing.
\* ------------------------------------------------------------------------
C26_Texts == SessionTexts \cup {"see file", "nan"}

C26_OnlyTheRow ==
    comps_loaded =>
        \A text \in C26_Texts, kind \in {"label", "note"},
           comp_ind \in -1 .. Len(comp_df.rows) :
            LET r == save_label_or_note(Self, text, kind, comp_ind)
                t == r.self
                i == comp_ind + 1
            IN  /\ t.curr_comp_pair_index = curr_comp_pair_index
                /\ t.label_choices = label_choices
                /\ Len(t.comp_df.rows) = Len(comp_df.rows)
                /\ \A j \in DOMAIN comp_df.rows :
                    /\ t.comp_df.rows[j].ids = comp_df.rows[j].ids
                    /\ j # i => t.comp_df.rows[j] = comp_df.rows[j]
                /\ (i \in DOMAIN comp_df.rows /\ kind = "label") =>
                    t.comp_df.rows[i].rlr_note = comp_df.rows[i].rlr_note
                /\ (i \in DOMAIN comp_df.rows /\ kind = "note") =>
                    /\ t.comp_df.rows[i].rlr_label = comp_df.rows[i].rlr_label
                    /\ t.comp_df.rows[i].rlr_label_ind
                            = comp_df.rows[i].rlr_label_ind
                    /\ t.comp_df.rows[i].rlr_note
                            \in {text, comp_df.rows[i].rlr_note}
                    /\ ready_to_review => t.comp_df.rows[i].rlr_note = text
                /\ i \notin DOMAIN comp_df.rows =>
                    /\ r.err # "" \/ r.warn # {}
                    /\ t = Self

\* a note was written on one row of a table whose other row was never
\* written
C26_Witness ==
    /\ ready_to_review
    /\ clock >= 1
    /\ \E i, j \in DOMAIN comp_df.rows :
        /\ comp_df.rows[i].rlr_note = "see file"
        /\ comp_df.rows[i].rlr_modified = clock
        /\ comp_df.rows[j].rlr_modified \in {NoTime, NaT}

\* ------------------------------------------------------------------------
\* C27: once a load_dataset has invalidated the comparison table
\* (comps_loaded false), no save_label_or_note changes a row of the table in
\* memory or writes the file until load_comp_pairs succeeds again; a label
\* or note write takes effect only while both data sets, the comparison
\* table and the schema are all loaded.
\* ------------------------------------------------------------------------
C27_AllLoaded ==
    dataL_loaded /\ dataR_loaded /\ comps_loaded /\ var_schema_loaded

C27_NoWriteWhenInvalidated ==
    ~C27_AllLoaded =>
        \A text \in SessionTexts, kind \in KindInputs,
           comp_ind \in -1 .. Len(comp_df.rows) :
            LET r == save_label_or_note(Self, text, kind, comp_ind)
            IN  r.self.comp_df = comp_df /\ r.self.disk = disk

\* ------------------------------------------------------------------------
\* C28: for a comparison table that was loaded without review columns of
\* its own, whatever save_label_or_note, set_label_choices and navigation
\* did since: the indicator of every row is -1, 0 or 1, and on every row
\* whose indicator is not -1 it is 1 exactly when the label is not empty.
\* (The file has review columns only after a save: while it has none, every
\* table the session loaded had none.)
\* ------------------------------------------------------------------------
C28_IndicatorMatchesLabel ==
    (comps_loaded /\ ~disk.rev) =>
        \A i \in DOMAIN comp_df.rows :
            LET row == comp_df.rows[i]
            IN  /\ row.rlr_label_ind \in {-1, 0, 1}
                /\ row.rlr_label_ind # -1 =>
                    (row.rlr_label_ind = 1 <=> row.rlr_label # "")

\* a table with a labeled pair and a pair that was not found
C28_Witness ==
    /\ comps_loaded
    /\ ~disk.rev
    /\ \E i, j \in DOMAIN comp_df.rows :
        /\ comp_df.rows[i].rlr_label_ind = 1
        /\ comp_df.rows[i].rlr_label # ""
        /\ comp_df.rows[j].rlr_label_ind = -1

\* ------------------------------------------------------------------------
\* C29: load_review_packet of a self-consistent packet (existing files of a
\* supported type, unique ids, left and right id columns disjoint, schema
\* fields present) succeeds and leaves a ready session from every reachable
\* session state; data sets that are already loaded do not make it fail.
\* ------------------------------------------------------------------------
C29_LoadsFromAnyState ==
    \A index \in {NoIndex, 1} :
        LET r == load_review_packet(Self, Packet("cd.dta", <<GroupA>>, {}, index))
        IN  r.err = "" /\ r.self.ready_to_review

\* ------------------------------------------------------------------------
\* C30: the rows next_unlabeled_pair and prev_unlabeled_pair treat as
\* unlabeled (the rows their scans stop on before the boundary) are exactly
\* the rows get_label_counts counts under "Unlabeled", for the empty label
\* and for the missing label of a reloaded file alike.
\* ------------------------------------------------------------------------
\* the forward scan entered at row i stops there although i is not the last
\* row, or the backward scan entered at i stops there although i is not the
\* first
C30_ScanStopsOn(i) ==
    \/ i < Rows(Self) - 1 /\ ScanForward(Self, i) = i
    \/ i > 0 /\ ScanBackward(Self, i) = i

C30_ScansAgreeWithCounts ==
    (/\ comps_loaded
     /\ Len(comp_df.rows) >= 2
     /\ "Unlabeled" \notin Range(label_choices)
     /\ \A i \in DOMAIN comp_df.rows : comp_df.rows[i].rlr_label # "Unlabeled")
    => Cardinality({i \in 0 .. Rows(Self) - 1 : C30_ScanStopsOn(i)})
            = get_label_counts(Self).val.counts["Unlabeled"]

====
